---- MODULE Spec2Model ----
(***************************************************************************)
(* Model of sync_r2_to_d1.py: the incremental R2 -> SQLite -> D1 sync.     *)
(*                                                                         *)
(* A table is the sequence of its rows in rowid order; a row is a record   *)
(* from column names to SQL scalars.  SQL scalars are strings, and the     *)
(* string "NULL" stands for SQL NULL.  WHERE keeps a row only when its     *)
(* condition is TRUE (not FALSE, not NULL), so each SQL condition is       *)
(* modelled by the predicate "the condition evaluates to TRUE".            *)
(***************************************************************************)
EXTENDS Integers, Sequences, FiniteSets, TLC

VARIABLES
    table_name,   \* build_merge_sql: the table the merge script is for
    target,       \* rows of {table_name} while the merge script runs
    staging,      \* rows of staging_{table_name} while the merge script runs
    mpc,          \* next statement of the merge script
    warnings,     \* result rows of the warning SELECT
    written,      \* positions of the target rows the UPDATE statement wrote
    target0,      \* rows of {table_name} when the script started
    staging0      \* rows of staging_{table_name} when the script started

mergeVars == <<table_name, target, staging, mpc, warnings, written, target0, staging0>>

VARIABLES
    pc,             \* main: the phase the run is in
    args,           \* main: [skip_download, skip_import]
    env,            \* [missing: the unset R2 settings, sqlite3: the tool is installed]
    r2,             \* the Parquet snapshot in the bucket: table -> rows
    sqlite_file,    \* SQLITE_FILE: [exists, tables]
    sku_chunk_size, \* sku_chunk_size as the run uses it, scaled down to a few rows
    dump_files,     \* main: the list create_sql_dumps returned
    d1,             \* the remote D1 database
    d1_start,       \* the remote D1 database when this run started
    file_index,     \* import_to_d1: i, the files imported so far in this run
    invoked,        \* names of the files handed to wrangler in this run
    commands,       \* the wrangler commands run in this run
    failed_at,      \* position of the file whose execution returned non-zero, or 0
    plan,           \* the commands logged under --skip-import
    exit_status,    \* -1 while the run is going, else the process exit status
    run,            \* number of the run (the operator may start the program again)
    end_states      \* per completed import: [run, files, d1]

runVars == <<pc, args, env, r2, sqlite_file, sku_chunk_size, dump_files, d1, d1_start, file_index,
             invoked, commands, failed_at, plan, exit_status, run, end_states>>

VARIABLES
    schema_stdout,  \* create_sql_dumps: the lines sqlite3 .schema printed
    schema_lines,   \* create_sql_dumps: the lines of dump_schema.sql so far
    lines_read      \* number of lines of schema_stdout the loop has handled

schemaVars == <<schema_stdout, schema_lines, lines_read>>

VARIABLES
    runs            \* two runs of the program at once: per run [store, dump_files, file_index, pc]

raceVars == <<runs>>

vars == <<mergeVars, runVars, schemaVars, raceVars>>

----------------------------------------------------------------------------
(* Bounds of the model *)

MaxTarget == 2
MaxStaging == 2
MaxSkus == 3
MaxChunkSize == 2
MaxRuns == 2
MaxSchemaLines == 2

----------------------------------------------------------------------------
(* SQL values and tables *)

NULL == "NULL"

LOG_PREFIX == "sync_r2_to_d1.py"

SKU_CHUNK_SIZE == 500000

Tables == {"groups", "products", "skus"}

\* create_sql_dumps: table_keys
table_keys == [groups |-> "group_id", products |-> "product_id", skus |-> "sku_id"]

\* get_table_columns: the column order of the local store's tables
get_table_columns(t) ==
    CASE t = "groups" -> <<"group_id", "name", "abbr", "is_current">>
      [] t = "products" -> <<"product_id", "group_id", "collector_number">>
      [] t = "skus" -> <<"sku_id", "product_id", "printing_id", "condition_id", "language_id">>

\* The rows a table of the snapshot or of the target may hold (small domains
\* per column; the key may be NULL because no table declares it NOT NULL).
RowsOf(t) ==
    CASE t = "groups" ->
           [group_id : {NULL, "1", "2"}, name : {NULL, "a"}, abbr : {"x"}, is_current : {"1"}]
      [] t = "products" ->
           [product_id : {NULL, "1", "2"}, group_id : {"1"}, collector_number : {NULL, "7"}]
      [] t = "skus" ->
           [sku_id : {"1", "2"}, product_id : {"1"}, printing_id : {"1"},
            condition_id : {"1"}, language_id : {"1", "2"}]

RECURSIVE SeqsUpTo(_, _)
SeqsUpTo(S, n) ==
    IF n = 0 THEN {<<>>}
    ELSE LET shorter == SeqsUpTo(S, n - 1)
         IN  shorter \cup {Append(s, x) : s \in {q \in shorter : Len(q) = n - 1}, x \in S}

\* The rows of s at the positions that pass Test, in order
KeepIdx(s, Test(_)) ==
    LET F[i \in 0..Len(s)] ==
            IF i = 0 THEN <<>>
            ELSE IF Test(i) THEN Append(F[i - 1], s[i]) ELSE F[i - 1]
    IN  F[Len(s)]

Min(S) == CHOOSE x \in S : \A y \in S : x <= y

ColumnValues(rows, column) == {rows[i][column] : i \in 1..Len(rows)}

\* Mutant: NULL = NULL taken for TRUE
EqNullSafe(a, b) == a = b

\* a = b evaluates to TRUE
EqTrue(a, b) == a # NULL /\ b # NULL /\ a = b

\* Mutant: a <> b evaluates to TRUE (the ordinary inequality)
NotEqualTrue(a, b) == a # NULL /\ b # NULL /\ a # b

\* a IS NOT b (never NULL)
IsNot(a, b) == a # b

\* a NOT IN (values) evaluates to TRUE
NotInTrue(a, values) ==
    \/ values = {}
    \/ a # NULL /\ NULL \notin values /\ a \notin values

\* (SELECT column FROM rows WHERE rows.key_column = k): NULL when no row matches
ScalarSubquery(rows, key_column, column, k) ==
    LET hits == {j \in 1..Len(rows) : EqTrue(rows[j][key_column], k)}
    IN  IF hits = {} THEN NULL ELSE rows[Min(hits)][column]

----------------------------------------------------------------------------
(* build_merge_sql: the statements of the merge script *)

non_key_columns(columns, key_column) == SelectSeq(columns, LAMBDA c : c # key_column)

\* Mutant: MAX(rowid) where the script says MIN(rowid)
DedupeKeepLast(stg, key_column) ==
    LET MaxRowid(i) ==
            LET same == {j \in 1..Len(stg) : EqTrue(stg[j][key_column], stg[i][key_column])}
            IN  IF same = {} THEN 0 ELSE CHOOSE x \in same : \A y \in same : y <= x
    IN  KeepIdx(stg, LAMBDA i : i = MaxRowid(i))

\* Mutant: no dedup step
DedupeNothing(stg, key_column) == stg

\* Dedupe staging rows by key (keep first rowid)
DedupeStaging(stg, key_column) ==
    LET MinRowid(i) ==
            LET same == {j \in 1..Len(stg) : EqTrue(stg[j][key_column], stg[i][key_column])}
            IN  IF same = {} THEN 0 ELSE Min(same)
    IN  KeepIdx(stg, LAMBDA i : i = MinRowid(i))

\* Mutant: the UPDATE without its diff predicates
UpdateWhereNoDiff(t, stg, key_column, columns) ==
    \E j \in 1..Len(stg) : EqTrue(stg[j][key_column], t[key_column])

\* the WHERE EXISTS of the UPDATE, for target row t
UpdateWhere(t, stg, key_column, columns) ==
    LET nk == non_key_columns(columns, key_column)
    IN  \E j \in 1..Len(stg) :
            /\ EqTrue(stg[j][key_column], t[key_column])
            /\ \E n \in 1..Len(nk) :
                   IsNot(t[nk[n]], ScalarSubquery(stg, key_column, nk[n], t[key_column]))

\* Merge changed rows
UpdateChanged(tgt, stg, key_column, columns) ==
    LET nk == non_key_columns(columns, key_column)
        nkset == {nk[n] : n \in 1..Len(nk)}
    IN  IF nk = <<>> THEN tgt
        ELSE [i \in 1..Len(tgt) |->
                 IF UpdateWhere(tgt[i], stg, key_column, columns)
                 THEN [c \in DOMAIN tgt[i] |->
                          IF c \in nkset
                          THEN ScalarSubquery(stg, key_column, c, tgt[i][key_column])
                          ELSE tgt[i][c]]
                 ELSE tgt[i]]

\* Insert new rows
InsertNew(tgt, stg, key_column) ==
    tgt \o KeepIdx(stg, LAMBDA i : NotInTrue(stg[i][key_column], ColumnValues(tgt, key_column)))

\* Mutant: no warning row
WarningNever(stg, t) == <<>>

\* Warn if staging is empty
WarningRows(stg, t) ==
    IF Len(stg) = 0
    THEN << <<LOG_PREFIX, "WARNING empty staging", t, "skipping deletes">> >>
    ELSE <<>>

\* Mutant: the DELETE without the guard on non-empty staging
DeleteUnguarded(tgt, stg, key_column) ==
    KeepIdx(tgt, LAMBDA i :
        ~ NotInTrue(tgt[i][key_column], ColumnValues(stg, key_column)))

\* Mutant: no DELETE statement
DeleteNothing(tgt, stg, key_column) == tgt

\* Delete removed rows (guarded on non-empty staging)
DeleteRemoved(tgt, stg, key_column) ==
    KeepIdx(tgt, LAMBDA i :
        ~ (Len(stg) > 0 /\ NotInTrue(tgt[i][key_column], ColumnValues(stg, key_column))))

\* The whole script, statement after statement: [target, staging, warnings]
MergeScript(tgt, stg, t) ==
    LET k  == table_keys[t]
        s1 == DedupeStaging(stg, k)
        t1 == UpdateChanged(tgt, s1, k, get_table_columns(t))
        t2 == InsertNew(t1, s1, k)
        t3 == DeleteRemoved(t2, s1, k)
    IN  [target |-> t3, staging |-> s1, warnings |-> WarningRows(s1, t)]

----------------------------------------------------------------------------
(* The remote database and the statements of the generated files           *)
(*                                                                         *)
(* A database is [tables, indexes]: tables maps the name of every existing *)
(* table to its rows, indexes maps every existing index to its table.      *)
(* A statement is [op, name, arg].                                         *)

\* Mutant: one staging table for all tables
StagingShared(t) == "staging_skus"

\* staging_table = f"staging_{table_name}"
Staging(t) == "staging_" \o t

StagingDedup(t) == Staging(t) \o "_dedup"

Stmt(op, name, arg) == [op |-> op, name |-> name, arg |-> arg]

EmptyDb == [tables |-> <<>>, indexes |-> <<>>]

HasTable(db, t) == t \in DOMAIN db.tables

DropTable(db, t) ==
    [tables  |-> [x \in (DOMAIN db.tables) \ {t} |-> db.tables[x]],
     indexes |-> [n \in {m \in DOMAIN db.indexes : db.indexes[m] # t} |-> db.indexes[n]]]

PutTable(db, t, rows) ==
    [db EXCEPT !.tables = [x \in (DOMAIN db.tables) \cup {t} |->
                              IF x = t THEN rows ELSE db.tables[x]]]

Fail(db) == [ok |-> FALSE, db |-> db, out |-> <<>>]

Done(db) == [ok |-> TRUE, db |-> db, out |-> <<>>]

\* CREATE TABLE staging AS SELECT * FROM table WHERE 0
CreateStaging(db, st) ==
    IF ~ HasTable(db, st.arg) \/ HasTable(db, st.name) THEN Fail(db)
    ELSE Done(PutTable(db, st.name, <<>>))

\* One statement against the database: [ok, db, out]
ExecStmt(db, st) ==
    LET t == st.name
        s == Staging(st.name)
        k == st.arg.key_column
    IN
    CASE st.op \in {"PRAGMA foreign_keys=OFF", "BEGIN", "COMMIT"} -> Done(db)
      [] st.op = "DROP TABLE IF EXISTS" -> Done(DropTable(db, t))
      [] st.op = "CREATE TABLE" ->
           IF HasTable(db, t) THEN Fail(db) ELSE Done(PutTable(db, t, <<>>))
      [] st.op = "CREATE TABLE IF NOT EXISTS" ->
           IF HasTable(db, t) THEN Done(db) ELSE Done(PutTable(db, t, <<>>))
      [] st.op = "DROP INDEX IF EXISTS" ->
           Done([db EXCEPT !.indexes = [n \in (DOMAIN db.indexes) \ {t} |-> db.indexes[n]]])
      [] st.op = "CREATE INDEX" ->
           IF t \in DOMAIN db.indexes \/ ~ HasTable(db, st.arg) THEN Fail(db)
           ELSE Done([db EXCEPT !.indexes = [n \in (DOMAIN db.indexes) \cup {t} |->
                                                IF n = t THEN st.arg ELSE db.indexes[n]]])
      [] st.op = "CREATE INDEX IF NOT EXISTS" ->
           IF t \in DOMAIN db.indexes THEN Done(db)
           ELSE IF ~ HasTable(db, st.arg) THEN Fail(db)
           ELSE Done([db EXCEPT !.indexes = [n \in (DOMAIN db.indexes) \cup {t} |->
                                                IF n = t THEN st.arg ELSE db.indexes[n]]])
      [] st.op = "CREATE TABLE AS SELECT WHERE 0" -> CreateStaging(db, st)
      [] st.op = "CREATE TABLE IF NOT EXISTS AS SELECT WHERE 0" ->
           IF HasTable(db, t) THEN Done(db) ELSE CreateStaging(db, st)
      [] st.op = "INSERT INTO" ->
           IF ~ HasTable(db, t) THEN Fail(db)
           ELSE Done(PutTable(db, t, db.tables[t] \o st.arg))
      [] st.op = "dedupe" ->
           IF ~ HasTable(db, s) THEN Fail(db)
           ELSE Done(PutTable(DropTable(db, StagingDedup(t)), s,
                              DedupeStaging(db.tables[s], k)))
      [] st.op = "update" ->
           IF ~ HasTable(db, s) \/ ~ HasTable(db, t) THEN Fail(db)
           ELSE Done(PutTable(db, t, UpdateChanged(db.tables[t], db.tables[s], k,
                                                   st.arg.columns)))
      [] st.op = "insert" ->
           IF ~ HasTable(db, s) \/ ~ HasTable(db, t) THEN Fail(db)
           ELSE Done(PutTable(db, t, InsertNew(db.tables[t], db.tables[s], k)))
      [] st.op = "warn" ->
           IF ~ HasTable(db, s) THEN Fail(db)
           ELSE [ok |-> TRUE, db |-> db, out |-> WarningRows(db.tables[s], t)]
      [] st.op = "delete" ->
           IF ~ HasTable(db, s) \/ ~ HasTable(db, t) THEN Fail(db)
           ELSE Done(PutTable(db, t, DeleteRemoved(db.tables[t], db.tables[s], k)))

\* One more statement of a file: x is [ok, db, saved, in_txn, out], the
\* execution so far.  A failing statement ends the file; inside BEGIN ..
\* COMMIT it rolls the transaction back.
ExecNext(x, st) ==
    LET r == ExecStmt(x.db, st)
    IN  IF ~ x.ok THEN x
        ELSE IF ~ r.ok
        THEN [x EXCEPT !.ok = FALSE,
                       !.db = IF x.in_txn THEN x.saved ELSE x.db,
                       !.in_txn = FALSE]
        ELSE [ok |-> TRUE, db |-> r.db,
              saved  |-> IF st.op = "BEGIN" THEN x.db ELSE x.saved,
              in_txn |-> IF st.op = "BEGIN" THEN TRUE
                         ELSE IF st.op = "COMMIT" THEN FALSE ELSE x.in_txn,
              out |-> x.out \o r.out]

RECURSIVE ExecFrom(_, _)
ExecFrom(x, stmts) ==
    IF stmts = <<>> THEN x ELSE ExecFrom(ExecNext(x, Head(stmts)), Tail(stmts))

\* The statements of a file against the database, one after the other
ExecStmts(db, stmts) ==
    ExecFrom([ok |-> TRUE, db |-> db, saved |-> db, in_txn |-> FALSE, out |-> <<>>], stmts)

\* wrangler d1 execute --file: the whole file
ExecFile(db, file) ==
    LET end == ExecStmts(db, file.stmts)
    IN  [ok |-> end.ok, db |-> end.db, out |-> end.out]

\* The execution breaks off before statement n + 1 (the remote resets, the
\* connection drops): an open transaction is rolled back.
ExecInterrupted(db, file, n) ==
    LET end == ExecStmts(db, SubSeq(file.stmts, 1, n))
    IN  IF end.in_txn THEN end.saved ELSE end.db

\* wrangler d1 execute --file for the files of a list, one after the other,
\* up to the first that fails: [ok, db]
RECURSIVE ApplyFiles(_, _)
ApplyFiles(db, files) ==
    IF files = <<>> THEN [ok |-> TRUE, db |-> db]
    ELSE LET r == ExecFile(db, Head(files))
         IN  IF r.ok THEN ApplyFiles(r.db, Tail(files)) ELSE [ok |-> FALSE, db |-> r.db]

----------------------------------------------------------------------------
(* create_sql_dumps: the generated files *)

\* build_merge_sql as statements; no UPDATE when there is no non-key column
build_merge_sql(t, key_column, columns) ==
    LET a == [key_column |-> key_column, columns |-> columns]
    IN  <<Stmt("dedupe", t, a)>>
        \o (IF non_key_columns(columns, key_column) # <<>>
            THEN <<Stmt("update", t, a)>> ELSE <<>>)
        \o <<Stmt("insert", t, a), Stmt("warn", t, a), Stmt("delete", t, a)>>

\* A line of the schema: the statement it starts with (kind), the object it
\* names, whether the name is in double quotes, whether " IF NOT EXISTS"
\* stands in it, the table of an index (on) and the rest of the line.
Line(kind, name, quoted, if_not_exists, on, rest) ==
    [kind |-> kind, name |-> name, quoted |-> quoted, if_not_exists |-> if_not_exists,
     on |-> on, rest |-> rest]

\* sqlite3 .schema of the local store: the tables, then the indexes
SchemaLines(if_not_exists) ==
    << Line("CREATE TABLE", "groups", FALSE, if_not_exists, "", "(group_id,name,abbr,is_current);"),
       Line("CREATE TABLE", "products", FALSE, if_not_exists, "",
            "(group_id,product_id,collector_number);"),
       Line("CREATE TABLE", "skus", FALSE, if_not_exists, "",
            "(sku_id,product_id,printing_id,condition_id,language_id);"),
       Line("CREATE INDEX", "idx_groups_abbr", FALSE, FALSE, "groups", "ON groups(abbr);"),
       Line("CREATE INDEX", "idx_products_lookup", FALSE, FALSE, "products",
            "ON products(group_id, collector_number);"),
       Line("CREATE INDEX", "idx_skus_lookup", FALSE, FALSE, "skus",
            "ON skus(product_id, printing_id, condition_id, language_id);") >>

\* Mutant: " IF NOT EXISTS" is left in the line
clean_line_keep(line) == line

\* line.replace(" IF NOT EXISTS", "")
clean_line(line) == [line EXCEPT !.if_not_exists = FALSE]

\* the names \w+ matches whole: the tables and indexes of the local store
WordNames ==
    {"groups", "products", "skus", "idx_groups_abbr", "idx_products_lookup", "idx_skus_lookup"}

\* re.search of the name after the CREATE keywords, quoted or not: the
\* matches, the name without its quotes or nothing
match(line) == IF line.name \in WordNames THEN {line.name} ELSE {}

\* f"DROP TABLE IF EXISTS {table_name};" / f"DROP INDEX IF EXISTS {index_name};"
DropLine(kind, name) == Line(kind, name, FALSE, FALSE, "", ";")

\* Mutant: the CREATE statements without a DROP before them
RewriteLineNoDrop(line) == <<clean_line(line)>>

\* one line of the schema, rewritten: " IF NOT EXISTS" stripped, DROP first
RewriteLine(line) ==
    LET c == clean_line(line)
    IN  IF c.kind = "CREATE TABLE"
        THEN (IF match(c) # {} THEN <<DropLine("DROP TABLE IF EXISTS", c.name)>> ELSE <<>>)
             \o <<c>>
        ELSE IF c.kind \in {"CREATE UNIQUE INDEX", "CREATE INDEX"}
        THEN (IF match(c) # {} THEN <<DropLine("DROP INDEX IF EXISTS", c.name)>> ELSE <<>>)
             \o <<c>>
        ELSE <<c>>

\* the loop over schema.stdout.splitlines()
RewriteSchema(lines) ==
    LET F[n \in 0..Len(lines)] ==
            IF n = 0 THEN <<>> ELSE F[n - 1] \o RewriteLine(lines[n])
    IN  F[Len(lines)]

\* the statement a line of dump_schema.sql is for the remote database;
\* a line of another kind (a comment, an empty line) is none
StmtOf(l) ==
    CASE l.kind \in {"DROP TABLE IF EXISTS", "DROP INDEX IF EXISTS"} ->
           <<Stmt(l.kind, l.name, <<>>)>>
      [] l.kind = "CREATE TABLE" ->
           <<Stmt(IF l.if_not_exists THEN "CREATE TABLE IF NOT EXISTS" ELSE "CREATE TABLE",
                  l.name, <<>>)>>
      [] l.kind \in {"CREATE UNIQUE INDEX", "CREATE INDEX"} ->
           <<Stmt(IF l.if_not_exists THEN "CREATE INDEX IF NOT EXISTS" ELSE "CREATE INDEX",
                  l.name, l.on)>>
      [] OTHER -> <<>>

StmtsOf(lines) ==
    LET F[n \in 0..Len(lines)] ==
            IF n = 0 THEN <<>> ELSE F[n - 1] \o StmtOf(lines[n])
    IN  F[Len(lines)]

SchemaFile(lines) ==
    [name |-> "dump_schema.sql", stmts |-> StmtsOf(RewriteSchema(lines))]

\* .mode insert: one INSERT per selected row, nothing for no row
InsertRows(staging_table, rows) ==
    IF rows = <<>> THEN <<>> ELSE <<Stmt("INSERT INTO", staging_table, rows)>>

\* Mutant: the staging table is not dropped after the merge
write_incremental_dump_keep_staging(store, t) ==
    [name  |-> "dump_" \o t \o ".sql",
     stmts |-> <<Stmt("PRAGMA foreign_keys=OFF", "", <<>>),
                 Stmt("BEGIN", "", <<>>),
                 Stmt("DROP TABLE IF EXISTS", Staging(t), <<>>),
                 Stmt("CREATE TABLE AS SELECT WHERE 0", Staging(t), t)>>
               \o InsertRows(Staging(t), store[t])
               \o build_merge_sql(t, table_keys[t], get_table_columns(t))
               \o <<Stmt("COMMIT", "", <<>>)>>]

\* Write a single-file incremental sync for smaller tables
write_incremental_dump(store, t) ==
    [name  |-> "dump_" \o t \o ".sql",
     stmts |-> <<Stmt("PRAGMA foreign_keys=OFF", "", <<>>),
                 Stmt("BEGIN", "", <<>>),
                 Stmt("DROP TABLE IF EXISTS", Staging(t), <<>>),
                 Stmt("CREATE TABLE AS SELECT WHERE 0", Staging(t), t)>>
               \o InsertRows(Staging(t), store[t])
               \o build_merge_sql(t, table_keys[t], get_table_columns(t))
               \o <<Stmt("DROP TABLE IF EXISTS", Staging(t), <<>>),
                    Stmt("COMMIT", "", <<>>)>>]

\* range(start, stop, step)
RECURSIVE Range(_, _, _)
Range(start, stop, step) ==
    IF start >= stop THEN <<>> ELSE <<start>> \o Range(start + step, stop, step)

\* Mutant: the range runs up to and including sku_count
ChunkOffsetsInclusive(sku_count, chunk_size) == Range(0, sku_count + 1, chunk_size)

\* the offsets the chunk loop enumerates: range(0, sku_count, SKU_CHUNK_SIZE)
ChunkOffsets(sku_count, chunk_size) == Range(0, sku_count, chunk_size)

\* Mutant: the slice starts one row late
LimitOffsetSkipsOne(rows, limit, offset) ==
    SubSeq(rows, offset + 2, IF offset + limit < Len(rows) THEN offset + limit ELSE Len(rows))

\* SELECT * FROM skus LIMIT chunk_size OFFSET offset
LimitOffset(rows, limit, offset) ==
    SubSeq(rows, offset + 1, IF offset + limit < Len(rows) THEN offset + limit ELSE Len(rows))

\* Mutant: CREATE TABLE IF NOT EXISTS in place of DROP and CREATE
skus_setup_keep ==
    [name  |-> "dump_skus_setup.sql",
     stmts |-> <<Stmt("PRAGMA foreign_keys=OFF", "", <<>>),
                 Stmt("CREATE TABLE IF NOT EXISTS AS SELECT WHERE 0", "staging_skus", "skus")>>]

\* Create the staging table once before chunked inserts
skus_setup_file ==
    [name  |-> "dump_skus_setup.sql",
     stmts |-> <<Stmt("PRAGMA foreign_keys=OFF", "", <<>>),
                 Stmt("DROP TABLE IF EXISTS", "staging_skus", <<>>),
                 Stmt("CREATE TABLE AS SELECT WHERE 0", "staging_skus", "skus")>>]

chunk_name(i) == "dump_skus_" \o ToString(i) \o ".sql"

chunk_file(store, chunk_size, i, offset) ==
    [name  |-> chunk_name(i),
     stmts |-> <<Stmt("BEGIN", "", <<>>)>>
               \o InsertRows("staging_skus", LimitOffset(store["skus"], chunk_size, offset))
               \o <<Stmt("COMMIT", "", <<>>)>>]

\* Mutant: the merge file leaves staging_skus in place
skus_merge_file_keep_staging ==
    [name  |-> "dump_skus_merge.sql",
     stmts |-> <<Stmt("BEGIN", "", <<>>)>>
               \o build_merge_sql("skus", table_keys["skus"], get_table_columns("skus"))
               \o <<Stmt("COMMIT", "", <<>>)>>]

\* Merge staging SKUs into the main table after all chunks are loaded
skus_merge_file ==
    [name  |-> "dump_skus_merge.sql",
     stmts |-> <<Stmt("BEGIN", "", <<>>)>>
               \o build_merge_sql("skus", table_keys["skus"], get_table_columns("skus"))
               \o <<Stmt("DROP TABLE IF EXISTS", "staging_skus", <<>>),
                    Stmt("COMMIT", "", <<>>)>>]

\* Mutant: the merge file is appended before the chunk loop
create_sql_dumps_merge_first(store, chunk_size, if_not_exists) ==
    LET offsets == ChunkOffsets(Len(store["skus"]), chunk_size)
    IN  <<SchemaFile(SchemaLines(if_not_exists)),
          write_incremental_dump(store, "groups"),
          write_incremental_dump(store, "products"),
          skus_setup_file,
          skus_merge_file>>
        \o [n \in 1..Len(offsets) |-> chunk_file(store, chunk_size, n - 1, offsets[n])]

\* the list of dump files in import order
create_sql_dumps(store, chunk_size, if_not_exists) ==
    LET offsets == ChunkOffsets(Len(store["skus"]), chunk_size)
    IN  <<SchemaFile(SchemaLines(if_not_exists)),
          write_incremental_dump(store, "groups"),
          write_incremental_dump(store, "products"),
          skus_setup_file>>
        \o [n \in 1..Len(offsets) |-> chunk_file(store, chunk_size, n - 1, offsets[n])]
        \o <<skus_merge_file>>

----------------------------------------------------------------------------
(* SpecMerge: one merge script run statement by statement against a target *)
(* table and a loaded staging table                                        *)

MergeInit ==
    /\ table_name \in Tables
    /\ target \in SeqsUpTo(RowsOf(table_name), MaxTarget)
    /\ staging \in SeqsUpTo(RowsOf(table_name), MaxStaging)
    /\ mpc = "dedupe"
    /\ warnings = <<>>
    /\ written = {}
    /\ target0 = target
    /\ staging0 = staging
    /\ pc = "merge_script"
    /\ args = [skip_download |-> FALSE, skip_import |-> FALSE, database |-> "tcg-matcher-db",
               working_dir |-> "worker"]
    /\ env = [missing |-> {}, sqlite3 |-> TRUE]
    /\ r2 = <<>>
    /\ sqlite_file = [exists |-> FALSE, tables |-> <<>>]
    /\ sku_chunk_size = 1
    /\ dump_files = <<>>
    /\ d1 = EmptyDb
    /\ d1_start = EmptyDb
    /\ schema_stdout = <<>>
    /\ schema_lines = <<>>
    /\ lines_read = 0
    /\ runs = <<>>
    /\ file_index = 0
    /\ invoked = <<>>
    /\ commands = <<>>
    /\ failed_at = 0
    /\ plan = <<>>
    /\ exit_status = -1
    /\ run = 1
    /\ end_states = <<>>

StmtDedupe ==
    /\ mpc = "dedupe"
    /\ staging' = DedupeStaging(staging, table_keys[table_name])
    /\ mpc' = "update"
    /\ UNCHANGED <<table_name, target, warnings, written, target0, staging0>>
    /\ UNCHANGED <<runVars, schemaVars, raceVars>>

StmtUpdate ==
    /\ mpc = "update"
    /\ target' = UpdateChanged(target, staging, table_keys[table_name],
                               get_table_columns(table_name))
    /\ written' = {i \in 1..Len(target) :
                       UpdateWhere(target[i], staging, table_keys[table_name],
                                   get_table_columns(table_name))}
    /\ mpc' = "insert"
    /\ UNCHANGED <<table_name, staging, warnings, target0, staging0>>
    /\ UNCHANGED <<runVars, schemaVars, raceVars>>

StmtInsert ==
    /\ mpc = "insert"
    /\ target' = InsertNew(target, staging, table_keys[table_name])
    /\ mpc' = "warn"
    /\ UNCHANGED <<table_name, staging, warnings, written, target0, staging0>>
    /\ UNCHANGED <<runVars, schemaVars, raceVars>>

StmtWarn ==
    /\ mpc = "warn"
    /\ warnings' = WarningRows(staging, table_name)
    /\ mpc' = "delete"
    /\ UNCHANGED <<table_name, target, staging, written, target0, staging0>>
    /\ UNCHANGED <<runVars, schemaVars, raceVars>>

StmtDelete ==
    /\ mpc = "delete"
    /\ target' = DeleteRemoved(target, staging, table_keys[table_name])
    /\ mpc' = "done"
    /\ UNCHANGED <<table_name, staging, warnings, written, target0, staging0>>
    /\ UNCHANGED <<runVars, schemaVars, raceVars>>

MergeNext == StmtDedupe \/ StmtUpdate \/ StmtInsert \/ StmtWarn \/ StmtDelete

SpecMerge == MergeInit /\ [][MergeNext]_vars

----------------------------------------------------------------------------
(* main: check_prerequisites, download_parquet_to_sqlite, create_sql_dumps, *)
(* import_to_d1                                                             *)

R2_SETTINGS == {"R2_ENDPOINT_URL", "R2_ACCESS_KEY_ID", "R2_SECRET_ACCESS_KEY", "R2_BUCKET"}

\* CASE WHEN is_current THEN 1 ELSE 0 END for groups, the other tables verbatim
CopyTable(t, rows) ==
    IF t = "groups"
    THEN [n \in 1..Len(rows) |->
             [rows[n] EXCEPT !.is_current = IF rows[n].is_current = "true" THEN "1" ELSE "0"]]
    ELSE rows

\* the indexes download_parquet_to_sqlite creates
StoreIndexes ==
    [idx_groups_abbr |-> "groups", idx_products_lookup |-> "products",
     idx_skus_lookup |-> "skus"]

\* the tables copied before the copy of table t
CopiedBefore(t) ==
    CASE t = "groups" -> {} [] t = "products" -> {"groups"} [] t = "skus" -> {"groups", "products"}

\* Mutant: log FAILED and go on with the next file
OnReturnContinue(returncode, idx) ==
    [pc |-> "import", exit_status |-> -1, file_index |-> idx + 1]

\* Mutant: a failed file is handed to wrangler again
OnReturnRetry(returncode, idx) ==
    [pc |-> "import", exit_status |-> -1,
     file_index |-> IF returncode # 0 THEN idx ELSE idx + 1]

\* import_to_d1: after wrangler returned for file idx + 1
OnReturn(returncode, idx) ==
    IF returncode # 0
    THEN [pc |-> "exit", exit_status |-> 1, file_index |-> idx]
    ELSE [pc |-> "import", exit_status |-> -1, file_index |-> idx + 1]

\* Mutant: the error is logged and the run ends as a completed one
ExitLogged == pc' = "done" /\ exit_status' = 0

Exit1 == pc' = "exit" /\ exit_status' = 1

\* the directory the program is started in
CWD == "/repo"

\* dump_file.resolve(): DUMP_DIR / name made absolute
resolve(dump_file) == CWD \o "/" \o dump_file.name

\* import_to_d1: the subprocess of one file
ImportCommand(database, working_dir, dump_file) ==
    [argv |-> <<"npx", "wrangler", "d1", "execute", database, "--remote",
                "--file=" \o resolve(dump_file)>>,
     cwd  |-> working_dir]

\* Mutant: the file as the list names it, not resolved
PlanCommandRelative(database, working_dir, dump_file) ==
    [argv |-> <<"npx", "wrangler", "d1", "execute", database, "--remote",
                "--file=" \o dump_file.name>>,
     cwd  |-> working_dir]

\* main, --skip-import: the command logged for one file, to be run after
\* the logged "cd {working_dir}"
PlanCommand(database, working_dir, dump_file) ==
    [argv |-> <<"npx", "wrangler", "d1", "execute", database, "--remote",
                "--file=" \o resolve(dump_file)>>,
     cwd  |-> working_dir]

CheckPrerequisites ==
    /\ pc = "check_prerequisites"
    /\ IF env.missing # {} \/ ~ env.sqlite3
       THEN Exit1
       ELSE pc' = "download" /\ UNCHANGED exit_status
    /\ UNCHANGED <<d1_start, args, env, r2, sqlite_file, sku_chunk_size, dump_files, d1, file_index,
                   invoked, commands, failed_at, plan, run, end_states>>
    /\ UNCHANGED <<mergeVars, schemaVars, raceVars>>

\* Mutant: --skip-download without the check that the store exists
SkipDownloadUnchecked ==
    /\ pc = "download"
    /\ args.skip_download
    /\ pc' = "create_sql_dumps"
    /\ UNCHANGED <<d1_start, args, env, r2, sqlite_file, sku_chunk_size, dump_files, d1, file_index,
                   invoked, commands, failed_at, plan, exit_status, run, end_states>>
    /\ UNCHANGED <<mergeVars, schemaVars, raceVars>>

SkipDownload ==
    /\ pc = "download"
    /\ args.skip_download
    /\ IF ~ sqlite_file.exists
       THEN Exit1
       ELSE pc' = "create_sql_dumps" /\ UNCHANGED exit_status
    /\ UNCHANGED <<d1_start, args, env, r2, sqlite_file, sku_chunk_size, dump_files, d1, file_index,
                   invoked, commands, failed_at, plan, run, end_states>>
    /\ UNCHANGED <<mergeVars, schemaVars, raceVars>>

Download ==
    /\ pc = "download"
    /\ ~ args.skip_download
    /\ sqlite_file' = [exists |-> TRUE, tables |-> [t \in Tables |-> CopyTable(t, r2[t])]]
    /\ pc' = "create_sql_dumps"
    /\ UNCHANGED <<d1_start, args, env, r2, sku_chunk_size, dump_files, d1, file_index, invoked, commands,
                   failed_at, plan, exit_status, run, end_states>>
    /\ UNCHANGED <<mergeVars, schemaVars, raceVars>>

\* the bucket is unreachable or rejects the credentials: before the store is
\* attached, or at the copy of one of the tables
DownloadFails ==
    /\ pc = "download"
    /\ ~ args.skip_download
    /\ \E stage \in {"connect"} \cup Tables :
           sqlite_file' =
               IF stage = "connect" THEN [exists |-> FALSE, tables |-> <<>>]
               ELSE [exists |-> TRUE,
                     tables |-> [t \in CopiedBefore(stage) |-> CopyTable(t, r2[t])]]
    /\ Exit1
    /\ UNCHANGED <<d1_start, args, env, r2, sku_chunk_size, dump_files, d1, file_index, invoked, commands,
                   failed_at, plan, run, end_states>>
    /\ UNCHANGED <<mergeVars, schemaVars, raceVars>>

\* Mutant: the import starts when the schema file is written
CreateSqlDumpsSchemaOnly ==
    /\ pc = "create_sql_dumps"
    /\ DOMAIN sqlite_file.tables = Tables
    /\ dump_files' = <<SchemaFile(SchemaLines(FALSE))>>
    /\ pc' = IF args.skip_import THEN "plan" ELSE "import"
    /\ file_index' = 0
    /\ UNCHANGED <<d1_start, args, env, r2, sqlite_file, sku_chunk_size, d1, invoked, commands,
                   failed_at, plan, exit_status, run, end_states>>
    /\ UNCHANGED <<mergeVars, schemaVars, raceVars>>

CreateSqlDumps ==
    /\ pc = "create_sql_dumps"
    /\ DOMAIN sqlite_file.tables = Tables
    /\ \E if_not_exists \in BOOLEAN :
           dump_files' = create_sql_dumps(sqlite_file.tables, sku_chunk_size, if_not_exists)
    /\ pc' = IF args.skip_import THEN "plan" ELSE "import"
    /\ file_index' = 0
    /\ UNCHANGED <<d1_start, args, env, r2, sqlite_file, sku_chunk_size, d1, invoked, commands, failed_at,
                   plan, exit_status, run, end_states>>
    /\ UNCHANGED <<mergeVars, schemaVars, raceVars>>

\* sqlite3 fails on a table the store does not hold (check=True)
CreateSqlDumpsFails ==
    /\ pc = "create_sql_dumps"
    /\ DOMAIN sqlite_file.tables # Tables
    /\ Exit1
    /\ UNCHANGED <<d1_start, args, env, r2, sqlite_file, sku_chunk_size, dump_files, d1, file_index,
                   invoked, commands, failed_at, plan, run, end_states>>
    /\ UNCHANGED <<mergeVars, schemaVars, raceVars>>

\* --skip-import: log the commands, run none
PlanOnly ==
    /\ pc = "plan"
    /\ plan' = [n \in 1..Len(dump_files) |->
                   PlanCommand(args.database, args.working_dir, dump_files[n])]
    /\ pc' = "done"
    /\ exit_status' = 0
    /\ UNCHANGED <<d1_start, args, env, r2, sqlite_file, sku_chunk_size, dump_files, d1, file_index,
                   invoked, commands, failed_at, run, end_states>>
    /\ UNCHANGED <<mergeVars, schemaVars, raceVars>>

Returned(returncode) ==
    LET o == OnReturn(returncode, file_index)
    IN  /\ pc' = o.pc
        /\ exit_status' = o.exit_status
        /\ file_index' = o.file_index
        /\ failed_at' = IF returncode # 0 /\ failed_at = 0 THEN file_index + 1 ELSE failed_at
        /\ invoked' = Append(invoked, dump_files[file_index + 1].name)
        /\ commands' = Append(commands, ImportCommand(args.database, args.working_dir,
                                                      dump_files[file_index + 1]))

\* one iteration of import_to_d1: the remote executes the file
ImportFile ==
    /\ pc = "import"
    /\ file_index < Len(dump_files)
    /\ LET r == ExecFile(d1, dump_files[file_index + 1])
       IN  /\ d1' = r.db
           /\ Returned(IF r.ok THEN 0 ELSE 1)
    /\ UNCHANGED <<d1_start, args, env, r2, sqlite_file, sku_chunk_size, dump_files, plan, run,
                   end_states>>
    /\ UNCHANGED <<mergeVars, schemaVars, raceVars>>

\* one iteration of import_to_d1: the execution breaks off and wrangler
\* returns non-zero
ImportFileInterrupted ==
    /\ pc = "import"
    /\ file_index < Len(dump_files)
    /\ \E n \in 0..Len(dump_files[file_index + 1].stmts) :
           d1' = ExecInterrupted(d1, dump_files[file_index + 1], n)
    /\ Returned(1)
    /\ UNCHANGED <<d1_start, args, env, r2, sqlite_file, sku_chunk_size, dump_files, plan, run,
                   end_states>>
    /\ UNCHANGED <<mergeVars, schemaVars, raceVars>>

\* the loop of import_to_d1 is over: "All imports complete!", "Sync complete!"
ImportComplete ==
    /\ pc = "import"
    /\ file_index = Len(dump_files)
    /\ pc' = "done"
    /\ exit_status' = 0
    /\ end_states' = Append(end_states, [run |-> run, files |-> dump_files, d1 |-> d1])
    /\ UNCHANGED <<d1_start, args, env, r2, sqlite_file, sku_chunk_size, dump_files, d1, file_index,
                   invoked, commands, failed_at, plan, run>>
    /\ UNCHANGED <<mergeVars, schemaVars, raceVars>>

\* the operator starts the program again, with arguments a
Rerun(a) ==
    /\ pc \in {"done", "exit"}
    /\ run < MaxRuns
    /\ run' = run + 1
    /\ args' = a
    /\ pc' = "check_prerequisites"
    /\ exit_status' = -1
    /\ file_index' = 0
    /\ invoked' = <<>>
    /\ commands' = <<>>
    /\ failed_at' = 0
    /\ plan' = <<>>
    /\ dump_files' = <<>>
    /\ d1_start' = d1
    /\ UNCHANGED <<env, r2, sqlite_file, sku_chunk_size, d1, end_states>>
    /\ UNCHANGED <<mergeVars, schemaVars, raceVars>>

----------------------------------------------------------------------------
(* Inputs of the runs *)

ParquetGroup(id, nm) == [group_id |-> id, name |-> nm, abbr |-> "x", is_current |-> "true"]

Group(id, nm) == [group_id |-> id, name |-> nm, abbr |-> "x", is_current |-> "1"]

Product(id, cn) == [product_id |-> id, group_id |-> "1", collector_number |-> cn]

Sku(id, lang) ==
    [sku_id |-> id, product_id |-> "1", printing_id |-> "1", condition_id |-> "1",
     language_id |-> lang]

\* the contents of a table of the bucket
SnapshotsOf(t) ==
    CASE t = "groups" ->
           {<<>>, <<ParquetGroup("1", "a")>>, <<ParquetGroup("1", "a"), ParquetGroup("2", "a")>>}
      [] t = "products" ->
           {<<>>, <<Product("1", "7")>>, <<Product("1", "7"), Product("2", "7")>>}
      [] t = "skus" -> SeqsUpTo({Sku("1", "1"), Sku("2", "1")}, MaxSkus)

\* the contents a table of the remote database holds from earlier syncs
OldContents(t) ==
    CASE t = "groups" -> {<<>>, <<Group("1", NULL)>>, <<Group("2", "a")>>}
      [] t = "products" -> {<<>>, <<Product("1", NULL)>>}
      [] t = "skus" -> {<<>>, <<Sku("1", "2")>>, <<Sku("2", "1")>>}

\* a provisioned remote database, with or without a staging_skus table left
\* by a run that broke off
ProvisionedDbs ==
    {[tables |-> [t \in Tables |-> f[t]], indexes |-> StoreIndexes] :
        f \in [Tables -> UNION {OldContents(t) : t \in Tables}]
        \ {g \in [Tables -> UNION {OldContents(t) : t \in Tables}] :
              \E t \in Tables : g[t] \notin OldContents(t)}}
    \cup
    {[tables |-> [t \in Tables \cup {"staging_skus"} |->
                     IF t = "staging_skus" THEN <<Sku("2", "2")>> ELSE f[t]],
      indexes |-> StoreIndexes] :
        f \in [Tables -> UNION {OldContents(t) : t \in Tables}]
        \ {g \in [Tables -> UNION {OldContents(t) : t \in Tables}] :
              \E t \in Tables : g[t] \notin OldContents(t)}}

\* no flag given: --database and --working-dir at their defaults
FullSync ==
    [skip_download |-> FALSE, skip_import |-> FALSE, database |-> "tcg-matcher-db",
     working_dir |-> "worker"]

RunInit ==
    /\ pc = "check_prerequisites"
    /\ dump_files = <<>>
    /\ file_index = 0
    /\ invoked = <<>>
    /\ commands = <<>>
    /\ failed_at = 0
    /\ plan = <<>>
    /\ exit_status = -1
    /\ run = 1
    /\ end_states = <<>>
    /\ schema_stdout = <<>>
    /\ schema_lines = <<>>
    /\ lines_read = 0
    /\ runs = <<>>
    /\ table_name = "groups"
    /\ target = <<>>
    /\ staging = <<>>
    /\ mpc = "idle"
    /\ warnings = <<>>
    /\ written = {}
    /\ target0 = <<>>
    /\ staging0 = <<>>

----------------------------------------------------------------------------
(* SpecSync: full syncs of any snapshot into any remote database *)

SyncInit ==
    /\ RunInit
    /\ args = FullSync
    /\ env = [missing |-> {}, sqlite3 |-> TRUE]
    /\ r2 \in {f \in [Tables -> UNION {SnapshotsOf(t) : t \in Tables}] :
                  \A t \in Tables : f[t] \in SnapshotsOf(t)}
    /\ sqlite_file = [exists |-> FALSE, tables |-> <<>>]
    /\ sku_chunk_size \in 1..MaxChunkSize
    /\ d1 \in {EmptyDb} \cup ProvisionedDbs
    /\ d1_start = d1

SyncNext ==
    \/ CheckPrerequisites
    \/ Download
    \/ CreateSqlDumps
    \/ ImportFile
    \/ ImportComplete
    \/ Rerun(FullSync)

SpecSync == SyncInit /\ [][SyncNext]_vars

----------------------------------------------------------------------------
(* SpecDump: the files create_sql_dumps writes for any snapshot *)

DumpInit ==
    /\ RunInit
    /\ args = FullSync
    /\ env = [missing |-> {}, sqlite3 |-> TRUE]
    /\ r2 \in {f \in [Tables -> UNION {SnapshotsOf(t) : t \in Tables}] :
                  \A t \in Tables : f[t] \in SnapshotsOf(t)}
    /\ sqlite_file = [exists |-> FALSE, tables |-> <<>>]
    /\ sku_chunk_size \in 1..MaxChunkSize
    /\ d1 = EmptyDb
    /\ d1_start = d1

DumpNext == CheckPrerequisites \/ Download \/ CreateSqlDumps

SpecDump == DumpInit /\ [][DumpNext]_vars

----------------------------------------------------------------------------
(* SpecSchema: the schema file of any schema the local store may print *)

\* the lines sqlite3 .schema may print: CREATE lines of the tables and of
\* the indexes, name quoted or not, with or without " IF NOT EXISTS", and
\* lines that start with something else
SchemaLineSet ==
    {Line("CREATE TABLE", n, q, x, "", "(...);") :
        n \in {"groups", "products"}, q \in BOOLEAN, x \in BOOLEAN}
    \cup {Line(k, "idx_groups_abbr", q, x, "groups", "ON groups(abbr);") :
             k \in {"CREATE INDEX", "CREATE UNIQUE INDEX"}, q \in BOOLEAN, x \in BOOLEAN}
    \cup {Line("other", "", FALSE, FALSE, "", "-- note")}

CreateKinds == {"CREATE TABLE", "CREATE INDEX", "CREATE UNIQUE INDEX"}

\* a schema names an object once and an index after its table
IsSchema(lines) ==
    /\ \A a, b \in 1..Len(lines) :
           (a # b /\ lines[a].kind \in CreateKinds /\ lines[b].kind \in CreateKinds)
               => lines[a].name # lines[b].name
    /\ \A b \in 1..Len(lines) :
           lines[b].kind \in {"CREATE INDEX", "CREATE UNIQUE INDEX"} =>
               \E a \in 1..(b - 1) :
                   lines[a].kind = "CREATE TABLE" /\ lines[a].name = lines[b].on

SchemaInit ==
    /\ pc = "schema"
    /\ schema_stdout \in {l \in SeqsUpTo(SchemaLineSet, MaxSchemaLines) : IsSchema(l)}
    /\ schema_lines = <<>>
    /\ lines_read = 0
    /\ runs = <<>>
    /\ dump_files = <<>>
    /\ file_index = 0
    /\ invoked = <<>>
    /\ commands = <<>>
    /\ failed_at = 0
    /\ plan = <<>>
    /\ exit_status = -1
    /\ run = 1
    /\ end_states = <<>>
    /\ table_name = "groups"
    /\ target = <<>>
    /\ staging = <<>>
    /\ mpc = "idle"
    /\ warnings = <<>>
    /\ written = {}
    /\ target0 = <<>>
    /\ staging0 = <<>>
    /\ args = FullSync
    /\ env = [missing |-> {}, sqlite3 |-> TRUE]
    /\ r2 = <<>>
    /\ sqlite_file = [exists |-> TRUE, tables |-> <<>>]
    /\ sku_chunk_size = 1
    /\ d1 \in {EmptyDb,
               [tables |-> [groups |-> <<Group("2", "a")>>, products |-> <<>>,
                            skus |-> <<Sku("1", "2")>>],
                indexes |-> StoreIndexes]}
    /\ d1_start = d1

\* for line in schema.stdout.splitlines(): ...
RewriteNextLine ==
    /\ pc = "schema"
    /\ lines_read < Len(schema_stdout)
    /\ schema_lines' = schema_lines \o RewriteLine(schema_stdout[lines_read + 1])
    /\ lines_read' = lines_read + 1
    /\ UNCHANGED <<schema_stdout, mergeVars, runVars, raceVars>>

\* schema_file.write_text(...); dump_files.append(schema_file)
WriteSchemaFile ==
    /\ pc = "schema"
    /\ lines_read = Len(schema_stdout)
    /\ dump_files' = <<[name |-> "dump_schema.sql", stmts |-> StmtsOf(schema_lines)]>>
    /\ pc' = "import"
    /\ UNCHANGED <<d1_start, args, env, r2, sqlite_file, sku_chunk_size, d1, file_index, invoked,
                   commands, failed_at, plan, exit_status, run, end_states>>
    /\ UNCHANGED <<mergeVars, schemaVars, raceVars>>

SchemaNext == RewriteNextLine \/ WriteSchemaFile \/ ImportFile

SpecSchema == SchemaInit /\ [][SchemaNext]_vars

----------------------------------------------------------------------------
(* SpecRace: two runs of the program, started with different snapshots,    *)
(* import their files into the same remote database; nothing orders the    *)
(* wrangler invocations of one run against those of the other.             *)

\* skus of the bucket as a run with snapshot language lang sees them
RaceSkus(lang) ==
    {[n \in 1..len |-> Sku(IF n % 2 = 1 THEN "1" ELSE "2", lang)] : len \in 0..MaxSkus}

\* the snapshot the first run and the snapshot the second run downloads
RaceSnapshots(r) ==
    IF r = 1
    THEN {[groups |-> g, products |-> <<Product("1", "7")>>, skus |-> k] :
             g \in {<<ParquetGroup("1", "a")>>}, k \in RaceSkus("1")}
    ELSE {[groups |-> g, products |-> <<Product("1", NULL)>>, skus |-> k] :
             g \in {<<>>, <<ParquetGroup("2", "a")>>}, k \in RaceSkus("2")}

\* a run after download_parquet_to_sqlite and create_sql_dumps
RunOf(snapshot, chunk_size) ==
    LET store == [t \in Tables |-> CopyTable(t, snapshot[t])]
    IN  [store |-> store, dump_files |-> create_sql_dumps(store, chunk_size, FALSE),
         file_index |-> 0, pc |-> "import"]

RaceInit ==
    /\ pc = "race"
    /\ sku_chunk_size \in 1..MaxChunkSize
    /\ runs \in {<<RunOf(a, sku_chunk_size), RunOf(b, sku_chunk_size)>> :
                    a \in RaceSnapshots(1), b \in RaceSnapshots(2)}
    /\ d1 = [tables |-> [groups |-> <<Group("2", "a")>>, products |-> <<>>,
                         skus |-> <<Sku("1", "2")>>],
             indexes |-> StoreIndexes]
    /\ d1_start = d1
    /\ args = FullSync
    /\ env = [missing |-> {}, sqlite3 |-> TRUE]
    /\ r2 = <<>>
    /\ sqlite_file = [exists |-> TRUE, tables |-> <<>>]
    /\ schema_stdout = <<>>
    /\ schema_lines = <<>>
    /\ lines_read = 0
    /\ dump_files = <<>>
    /\ file_index = 0
    /\ invoked = <<>>
    /\ commands = <<>>
    /\ failed_at = 0
    /\ plan = <<>>
    /\ exit_status = -1
    /\ run = 1
    /\ end_states = <<>>
    /\ table_name = "groups"
    /\ target = <<>>
    /\ staging = <<>>
    /\ mpc = "idle"
    /\ warnings = <<>>
    /\ written = {}
    /\ target0 = <<>>
    /\ staging0 = <<>>

\* one iteration of import_to_d1 in run r: the remote executes the file;
\* a non-zero return code ends the run
RaceImportFile(r) ==
    /\ runs[r].pc = "import"
    /\ runs[r].file_index < Len(runs[r].dump_files)
    /\ LET res == ExecFile(d1, runs[r].dump_files[runs[r].file_index + 1])
           o   == OnReturn(IF res.ok THEN 0 ELSE 1, runs[r].file_index)
       IN  /\ d1' = res.db
           /\ runs' = [runs EXCEPT ![r].pc = o.pc, ![r].file_index = o.file_index]
    /\ UNCHANGED <<pc, d1_start, args, env, r2, sqlite_file, sku_chunk_size, dump_files, file_index,
                   invoked, commands, failed_at, plan, exit_status, run, end_states>>
    /\ UNCHANGED <<mergeVars, schemaVars>>

\* the loop of import_to_d1 in run r is over: "Sync complete!"
RaceImportComplete(r) ==
    /\ runs[r].pc = "import"
    /\ runs[r].file_index = Len(runs[r].dump_files)
    /\ runs' = [runs EXCEPT ![r].pc = "done"]
    /\ UNCHANGED <<mergeVars, runVars, schemaVars>>

RaceNext ==
    \/ \E r \in {1, 2} : RaceImportFile(r)
    \/ \E r \in {1, 2} : RaceImportComplete(r)

SpecRace == RaceInit /\ [][RaceNext]_vars

----------------------------------------------------------------------------
(* Spec: the runs of main, with every argument and every failure *)

EnvStates ==
    {[missing |-> {}, sqlite3 |-> TRUE], [missing |-> {}, sqlite3 |-> FALSE]}
    \cup {[missing |-> {x}, sqlite3 |-> TRUE] : x \in R2_SETTINGS}

\* skus of the bucket, of every length: sku 1, sku 2, sku 1 again, ...
SkuSnapshots ==
    {[n \in 1..len |-> IF n % 2 = 1 THEN Sku("1", "1") ELSE Sku("2", "1")] : len \in 0..MaxSkus}

\* d1 is the database the default name stands for; another name is given
\* only to runs that execute nothing on it (--skip-import)
ArgsSet ==
    [skip_download : BOOLEAN, skip_import : BOOLEAN, database : {"tcg-matcher-db"},
     working_dir : {"worker"}]
    \cup [skip_download : BOOLEAN, skip_import : {TRUE}, database : {"tcg-test-db"},
          working_dir : {"worker"}]

Init ==
    /\ RunInit
    /\ args \in ArgsSet
    /\ env \in EnvStates
    /\ r2 \in {[groups |-> <<ParquetGroup("1", "a")>>, products |-> <<Product("1", "7")>>,
               skus |-> k] : k \in SkuSnapshots}
    /\ sqlite_file \in {[exists |-> FALSE, tables |-> <<>>],
                        [exists |-> TRUE, tables |-> [t \in Tables |-> CopyTable(t, r2[t])]]}
    /\ sku_chunk_size \in 1..MaxChunkSize
    /\ d1 \in {EmptyDb,
               [tables |-> [groups |-> <<Group("2", "a")>>, products |-> <<>>,
                            skus |-> <<Sku("1", "2")>>],
                indexes |-> StoreIndexes]}
    /\ d1_start = d1

Next ==
    \/ CheckPrerequisites
    \/ SkipDownload
    \/ Download
    \/ DownloadFails
    \/ CreateSqlDumps
    \/ CreateSqlDumpsFails
    \/ PlanOnly
    \/ ImportFile
    \/ ImportFileInterrupted
    \/ ImportComplete
    \/ \E a \in ArgsSet : Rerun(a)

Spec == Init /\ [][Next]_vars

----------------------------------------------------------------------------
(* Properties of the merge script (SpecMerge) *)

RowSet(rows) == {rows[i] : i \in 1..Len(rows)}

mkey == table_keys[table_name]

\* no two rows of the table carry the same key value
UniqueKeys(rows, key_column) ==
    \A i, j \in 1..Len(rows) : rows[i][key_column] = rows[j][key_column] => i = j

\* the first staged row carrying key value k
FirstStaged(k) == staging0[Min({j \in 1..Len(staging0) : staging0[j][mkey] = k})]

\* the row of the staged sequence that was inserted first, per non-NULL key
FirstPerKey == {FirstStaged(k) : k \in ColumnValues(staging0, mkey) \ {NULL}}

\* some non-key column of rows a and b differs (NULL equals NULL)
DiffersNonKey(a, b) ==
    \E c \in DOMAIN a : c # mkey /\ a[c] # b[c]

\* C1: a merge script run while staging holds zero rows leaves the rows of
\* the target table, in every step, exactly as they were.
C1_DeleteGuard == staging0 = <<>> => target = target0

C1_Witness == mpc = "done" /\ staging0 = <<>> /\ Len(target0) = MaxTarget

\* C4 as stated: for a target with unique keys and any non-empty staged row
\* sequence, the finished merge leaves the deduplicated staged rows (what
\* the dedup step kept) as the target's row set.
C4_Original ==
    (mpc = "done" /\ UniqueKeys(target0, mkey) /\ staging0 # <<>>)
        => RowSet(target) = RowSet(staging)

\* a 3-row groups table, re-synced with one name changed and one row removed
ScenarioGroups ==
    LET g(id, nm) == [group_id |-> id, name |-> nm, abbr |-> "x", is_current |-> "1"]
        end == MergeScript(<<g("1", "a"), g("2", "b"), g("3", "c")>>,
                           <<g("1", "a"), g("2", "B")>>, "groups").target
    IN  Len(end) = 2 /\ RowSet(end) = {g("1", "a"), g("2", "B")}

\* C4 (amended): for a target with unique non-NULL keys and staged rows of
\* which at least one has a non-NULL key, the finished merge leaves exactly
\* the first staged row of every non-NULL key: changed rows carry the staged
\* values, new keys are inserted, keys absent from staging are deleted.
C4_MergeEndState ==
    /\ ScenarioGroups
    /\ (mpc = "done" /\ UniqueKeys(target0, mkey)
          /\ NULL \notin ColumnValues(target0, mkey)
          /\ ColumnValues(staging0, mkey) \ {NULL} # {})
        => /\ RowSet(target) = FirstPerKey
           /\ Len(target) = Cardinality(FirstPerKey)

C4_Witness ==
    /\ mpc = "done" /\ UniqueKeys(target0, mkey)
    /\ NULL \notin ColumnValues(target0, mkey)
    /\ ColumnValues(staging0, mkey) \ {NULL} # {}
    /\ \E i \in 1..Len(target0) : target0[i][mkey] \notin ColumnValues(staging0, mkey)
    /\ \E i \in 1..Len(target0) : \E s \in FirstPerKey :
           s[mkey] = target0[i][mkey] /\ DiffersNonKey(target0[i], s)

\* C5 as stated: after the dedup step staging holds exactly one row per key
\* value that was staged, the one inserted first.
C5_Original ==
    mpc # "dedupe" =>
        \A k \in ColumnValues(staging0, mkey) :
            /\ Cardinality({i \in 1..Len(staging) : staging[i][mkey] = k}) = 1
            /\ FirstStaged(k) \in RowSet(staging)

\* C5 (amended): after the dedup step staging holds exactly one row per
\* non-NULL key that was staged, the one inserted first, in insertion order,
\* and no row with a NULL key.
C5_DedupCorrect ==
    mpc # "dedupe" =>
        /\ \A k \in ColumnValues(staging0, mkey) \ {NULL} :
               /\ Cardinality({i \in 1..Len(staging) : staging[i][mkey] = k}) = 1
               /\ FirstStaged(k) \in RowSet(staging)
        /\ ColumnValues(staging, mkey) = ColumnValues(staging0, mkey) \ {NULL}

C5_Witness ==
    /\ mpc = "update"
    /\ \E i, j \in 1..Len(staging0) :
           /\ i < j /\ staging0[i][mkey] # NULL
           /\ staging0[i][mkey] = staging0[j][mkey]
           /\ staging0[i] # staging0[j]
           /\ staging = <<staging0[i]>>

\* C6: the update step writes a target row only if a staged row with the
\* same key differs from it in a non-key column (NULL equal to NULL); every
\* other row, with or without a staged counterpart, is left as it was.
C6_UpdateMinimal ==
    [][mpc = "update" =>
          /\ Len(target') = Len(target)
          /\ \A i \in 1..Len(target) :
                 (i \in written' \/ target'[i] # target[i]) =>
                     \E j \in 1..Len(staging) :
                         /\ EqTrue(staging[j][mkey], target[i][mkey])
                         /\ DiffersNonKey(target[i], staging[j])]_vars

C6_Witness ==
    /\ mpc = "insert"
    /\ written # {}
    /\ \E i \in 1..Len(target) : \E j \in 1..Len(staging) :
           i \notin written /\ EqTrue(staging[j][mkey], target[i][mkey])

----------------------------------------------------------------------------
(* Properties of the runs (SpecSync, Spec) *)

\* the rows a file inserts into a staging table
RECURSIVE InsertedRows(_)
InsertedRows(stmts) ==
    IF stmts = <<>> THEN <<>>
    ELSE (IF Head(stmts).op = "INSERT INTO" THEN Head(stmts).arg ELSE <<>>)
         \o InsertedRows(Tail(stmts))

FilesNamed(names) == {n \in 1..Len(dump_files) : dump_files[n].name \in names}

ChunkNames == {chunk_name(n) : n \in 0..Len(dump_files)}

\* the chunk files, in the order of the list
ChunkFiles == SelectSeq(dump_files, LAMBDA f : f.name \in ChunkNames)

Ceil(r, c) == (r + c - 1) \div c

store_skus == sqlite_file.tables["skus"]

\* C2: after the whole file sequence of a snapshot was applied, a target
\* table whose snapshot table is empty still holds the rows it held before
\* the run.
C2_EmptySnapshotKeepsRows ==
    (pc = "done" /\ ~ args.skip_import) =>
        \A t \in Tables :
            (sqlite_file.tables[t] = <<>> /\ HasTable(d1_start, t))
                => /\ HasTable(d1, t)
                   /\ RowSet(d1_start.tables[t]) \subseteq RowSet(d1.tables[t])

\* C3: two runs in a row that apply the same list of files end in the same
\* remote database (tables, rows and indexes).
C3_Idempotent ==
    \A a, b \in 1..Len(end_states) :
        (end_states[b].run = end_states[a].run + 1
           /\ end_states[b].files = end_states[a].files)
            => end_states[b].d1 = end_states[a].d1

C3_Witness ==
    /\ Len(end_states) = 2
    /\ end_states[2].files = end_states[1].files
    /\ \A t \in Tables : end_states[2].d1.tables[t] # <<>>

\* C7: for R rows of skus and chunk size C there are exactly ceil(R/C)
\* chunk files, dump_skus_0 .. dump_skus_(ceil(R/C)-1), one setup file and
\* one merge file, ceil(R/C)+2 SKU files in all; 1,200,000 rows at 500,000
\* per chunk make 3 chunk files, no row makes none.
C7_ChunkCount ==
    /\ Len(ChunkOffsets(1200000, SKU_CHUNK_SIZE)) = 3
    /\ Len(ChunkOffsets(0, SKU_CHUNK_SIZE)) = 0
    /\ dump_files # <<>> =>
        LET N == Ceil(Len(store_skus), sku_chunk_size)
        IN  /\ Len(ChunkFiles) = N
            /\ \A n \in 1..N : ChunkFiles[n].name = chunk_name(n - 1)
            /\ Cardinality(FilesNamed({"dump_skus_setup.sql"})) = 1
            /\ Cardinality(FilesNamed({"dump_skus_merge.sql"})) = 1
            /\ Cardinality(FilesNamed(ChunkNames \cup {"dump_skus_setup.sql",
                                                       "dump_skus_merge.sql"})) = N + 2
            /\ Len(dump_files) = N + 5

C7_Witness ==
    /\ dump_files # <<>>
    /\ Len(store_skus) = MaxSkus /\ sku_chunk_size = MaxChunkSize
    /\ Len(ChunkFiles) = Ceil(MaxSkus, MaxChunkSize)

\* the concatenation of the rows of chunk files 1..n
RECURSIVE ChunkRowsUpTo(_)
ChunkRowsUpTo(n) ==
    IF n = 0 THEN <<>> ELSE ChunkRowsUpTo(n - 1) \o InsertedRows(ChunkFiles[n].stmts)

\* C8: chunk i carries the rows at positions [i*C, min((i+1)*C, R)) of the
\* skus table, between 1 and C rows, and the chunks together carry every row
\* of the table once, in order.
C8_ChunkComplete ==
    dump_files # <<>> =>
        /\ \A n \in 1..Len(ChunkFiles) :
               LET rows == InsertedRows(ChunkFiles[n].stmts)
                   from == (n - 1) * sku_chunk_size
                   to   == IF n * sku_chunk_size < Len(store_skus)
                           THEN n * sku_chunk_size ELSE Len(store_skus)
               IN  /\ Len(rows) = to - from
                   /\ Len(rows) >= 1 /\ Len(rows) <= sku_chunk_size
                   /\ \A j \in 1..Len(rows) : rows[j] = store_skus[from + j]
        /\ ChunkRowsUpTo(Len(ChunkFiles)) = store_skus

C8_Witness ==
    /\ dump_files # <<>>
    /\ Len(ChunkFiles) >= 2
    /\ Len(InsertedRows(ChunkFiles[Len(ChunkFiles)].stmts)) < sku_chunk_size
    /\ store_skus[1] # store_skus[Len(store_skus)]

\* C9: no generated file carries more rows than the chunk-size threshold of
\* its table.  The threshold of the medium products table is lower than the
\* one of skus, so no products file may carry more rows than a SKU chunk.
C9_BoundedUnitOfWork ==
    \A n \in 1..Len(dump_files) :
        dump_files[n].name \in ChunkNames \cup {"dump_products.sql"}
            => Len(InsertedRows(dump_files[n].stmts)) <= sku_chunk_size

\* C10: when the execution of file k returns non-zero, the run has invoked
\* files 1..k only and has ended with exit status 1.
C10_HaltOnFailure ==
    failed_at > 0 =>
        /\ pc = "exit" /\ exit_status = 1
        /\ invoked = [n \in 1..failed_at |-> dump_files[n].name]

C10_Witness ==
    /\ failed_at = 2 /\ Len(dump_files) = 5
    /\ invoked = <<"dump_schema.sql", "dump_groups.sql">>
    /\ exit_status = 1

\* C11: in every run the files are handed to wrangler in the order of the
\* list create_sql_dumps returned, the next file only after every file
\* before it returned success, each file at most once: nothing is invoked
\* after a failure, neither the failed file again nor an undo of the files
\* before it.
C11_ApplyOrder ==
    /\ [](/\ Len(invoked) <= Len(dump_files)
          /\ invoked = [n \in 1..Len(invoked) |-> dump_files[n].name]
          /\ \A a, b \in 1..Len(invoked) : invoked[a] = invoked[b] => a = b
          /\ Len(invoked) = file_index + (IF failed_at > 0 THEN 1 ELSE 0)
          /\ failed_at > 0 => failed_at = Len(invoked))
    /\ [][(invoked' # invoked /\ run' = run) =>
            /\ failed_at = 0
            /\ file_index = Len(invoked)
            /\ invoked' = Append(invoked, dump_files[file_index + 1].name)
            /\ dump_files' = dump_files]_vars

C11_Witness ==
    /\ pc = "done" /\ ~ args.skip_import
    /\ Len(dump_files) = 8
    /\ Len(invoked) = Len(dump_files)

\* the position of the file of that name in the list, 0 if there is none
PositionOf(name) ==
    IF \E n \in 1..Len(dump_files) : dump_files[n].name = name
    THEN Min({n \in 1..Len(dump_files) : dump_files[n].name = name})
    ELSE 0

\* C12: the list create_sql_dumps returns is dump_schema, dump_groups,
\* dump_products, dump_skus_setup, dump_skus_0 .. dump_skus_(N-1) in
\* ascending order, dump_skus_merge; so the schema file is first, the setup
\* file is before every chunk and every chunk is before the merge file.
C12_FileOrder ==
    dump_files # <<>> =>
        LET N == Len(dump_files) - 5
            names == [n \in 1..Len(dump_files) |-> dump_files[n].name]
        IN  /\ N >= 0
            /\ names = <<"dump_schema.sql", "dump_groups.sql", "dump_products.sql",
                         "dump_skus_setup.sql">>
                       \o [i \in 1..N |-> chunk_name(i - 1)]
                       \o <<"dump_skus_merge.sql">>
            /\ PositionOf("dump_schema.sql") = 1
            /\ \A i \in 0..(N - 1) :
                   /\ PositionOf("dump_skus_setup.sql") < PositionOf(chunk_name(i))
                   /\ PositionOf(chunk_name(i)) < PositionOf("dump_skus_merge.sql")
                   /\ i > 0 => PositionOf(chunk_name(i - 1)) < PositionOf(chunk_name(i))

C12_Witness ==
    /\ Len(dump_files) = 8
    /\ dump_files[5].name = "dump_skus_0.sql"
    /\ dump_files[7].name = "dump_skus_2.sql"

\* C13: a run with --skip-import writes the files, hands nothing to
\* wrangler and leaves the remote database as it was, and logs one command
\* per file, in the order of the list, that is the command import_to_d1
\* runs for that file (database name, file path, working directory); the
\* commands import_to_d1 does run are those.
C13_PlanOnly ==
    /\ args.skip_import =>
           /\ invoked = <<>> /\ commands = <<>>
           /\ d1 = d1_start
    /\ (args.skip_import /\ pc = "done") =>
           /\ dump_files = create_sql_dumps(sqlite_file.tables, sku_chunk_size, FALSE)
           /\ Len(plan) = Len(dump_files)
           /\ \A n \in 1..Len(plan) :
                  plan[n] = ImportCommand(args.database, args.working_dir, dump_files[n])
    /\ ~ args.skip_import =>
           /\ plan = <<>>
           /\ commands = [n \in 1..Len(invoked) |->
                              ImportCommand(args.database, args.working_dir, dump_files[n])]

C13_Witness ==
    /\ args.skip_import /\ pc = "done"
    /\ args.database = "tcg-test-db"
    /\ Len(plan) = 8
    /\ HasTable(d1, "skus") /\ d1.tables["skus"] # <<>>

\* an R2 setting is unset or sqlite3 is not installed
PrerequisiteMissing == env.missing # {} \/ ~ env.sqlite3

\* --skip-download while SQLITE_FILE does not exist
StoreMissing == args.skip_download /\ ~ sqlite_file.exists

\* the run has downloaded nothing, written no file and invoked nothing
NothingMoved == dump_files = <<>> /\ invoked = <<>> /\ commands = <<>> /\ d1 = d1_start

\* C14: with an R2 setting unset, sqlite3 missing, or --skip-download and
\* no local store, the run gets no further than its checks and ends with
\* exit status 1: no download, no file written, nothing invoked; and a run
\* with --skip-download never deletes or rebuilds the local store.
C14_PreconditionsFirst ==
    /\ [](PrerequisiteMissing =>
             /\ pc \in {"check_prerequisites", "exit"}
             /\ pc = "exit" => exit_status = 1
             /\ NothingMoved)
    /\ [](StoreMissing =>
             /\ pc \in {"check_prerequisites", "download", "exit"}
             /\ pc = "exit" => exit_status = 1
             /\ NothingMoved)
    /\ [][(PrerequisiteMissing \/ args.skip_download) => sqlite_file' = sqlite_file]_vars

C14_Witness ==
    /\ StoreMissing /\ ~ PrerequisiteMissing
    /\ pc = "exit" /\ exit_status = 1
    /\ run = 2 /\ HasTable(d1, "skus")

\* C15: when the download fails on the bucket (unreachable, credentials
\* rejected; at the first table or a later one), the run ends there and the
\* local store that existed before the run, the files on disk and the
\* remote database are as they were.
C15_NoPartialEffects ==
    [][(pc = "download" /\ ~ args.skip_download /\ pc' = "exit") =>
          /\ exit_status' = 1
          /\ sqlite_file.exists => sqlite_file' = sqlite_file
          /\ dump_files' = dump_files
          /\ d1' = d1]_vars

\* C16: wrangler is invoked for the first time only when every file of the
\* run is written, and from then on the list of files stays as it is; a run
\* whose schema or dump generation fails ends with exit status 1, nothing
\* invoked and the remote database as it was.
C16_GenerationFirst ==
    /\ [](invoked # <<>> =>
             dump_files = create_sql_dumps(sqlite_file.tables, sku_chunk_size, FALSE))
    /\ [][(invoked # <<>> /\ run' = run) =>
             dump_files' = dump_files /\ sqlite_file' = sqlite_file]_vars
    /\ [][(pc = "create_sql_dumps" /\ pc' = "exit") =>
             /\ exit_status' = 1
             /\ invoked' = <<>> /\ commands' = <<>>
             /\ d1' = d1_start']_vars

C16_Witness ==
    /\ pc = "exit" /\ exit_status = 1
    /\ ~ args.skip_import /\ args.skip_download /\ ~ PrerequisiteMissing
    /\ sqlite_file.exists /\ DOMAIN sqlite_file.tables # Tables
    /\ dump_files = <<>>
    /\ HasTable(d1, "groups") /\ d1.tables["groups"] # <<>>

\* the remote database when files 1..k-1 of the run are committed and file
\* k has had no effect
BeforeFile(k) == ApplyFiles(d1_start, SubSeq(dump_files, 1, k - 1)).db

\* C17: after the run halted at file k with files 1..k-1 committed and file
\* k without effect, applying files k..n of the same list in order succeeds
\* and ends in the remote database that files 1..n, applied without a
\* failure to the database the run started from, end in.  For every file
\* but the merge file this holds also for whatever part of file k the
\* broken-off execution has left behind.
C17_ResumeFromFailure ==
    (failed_at > 0
       /\ (d1 = BeforeFile(failed_at)
             \/ dump_files[failed_at].name # "dump_skus_merge.sql")) =>
        LET resumed  == ApplyFiles(d1, SubSeq(dump_files, failed_at, Len(dump_files)))
            straight == ApplyFiles(d1_start, dump_files)
        IN  /\ straight.ok
            /\ resumed.ok
            /\ resumed.db = straight.db

C17_Witness ==
    /\ failed_at > 0
    /\ dump_files[failed_at].name = "dump_skus_1.sql"
    /\ d1 = BeforeFile(failed_at)
    /\ HasTable(d1, "staging_skus") /\ d1.tables["staging_skus"] # <<>>
    /\ ApplyFiles(d1_start, dump_files).db.tables["skus"] # <<>>

\* C18: each generated file, applied a second time directly after it was
\* applied with success, succeeds again and leaves the remote database
\* (target tables and staging tables) as the first application left it.
C18_FileIdempotent ==
    (pc \in {"import", "done"} /\ file_index > 0) =>
        LET again == ExecFile(d1, dump_files[file_index])
        IN  /\ again.ok
            /\ again.db = d1

\* C19: when the run halted at file k >= 2, every target table still holds
\* the rows it held before the run that are also rows of the new snapshot,
\* and a table that held rows before the run is not empty.
C19_NoDestructiveHalt ==
    failed_at >= 2 =>
        \A t \in Tables :
            HasTable(d1_start, t) =>
                /\ HasTable(d1, t)
                /\ (RowSet(d1_start.tables[t]) \cap RowSet(sqlite_file.tables[t]))
                       \subseteq RowSet(d1.tables[t])
                /\ d1_start.tables[t] # <<>> => d1.tables[t] # <<>>

\* C20: if no two rows of the target carry the same key and no key is NULL
\* when the merge script starts, then after every statement of the script,
\* for every staged row sequence (repeated keys and repeated rows included,
\* as chunk files applied more than once leave them), again no two rows of
\* the target carry the same key.
C20_KeyUniqueness ==
    (UniqueKeys(target0, mkey) /\ NULL \notin ColumnValues(target0, mkey))
        => /\ UniqueKeys(target, mkey)
           /\ NULL \notin ColumnValues(target, mkey)

C20_Witness ==
    /\ mpc = "done"
    /\ target0 # <<>>
    /\ UniqueKeys(target0, mkey) /\ NULL \notin ColumnValues(target0, mkey)
    /\ \E i, j \in 1..Len(staging0) :
           /\ i < j
           /\ staging0[i][mkey] = staging0[j][mkey]
           /\ staging0[i][mkey] \notin ColumnValues(target0, mkey) \cup {NULL}
           /\ staging0[i][mkey] \in ColumnValues(target, mkey)

\* every phase the run attempted has succeeded
AllPhasesSucceeded ==
    /\ ~ PrerequisiteMissing
    /\ sqlite_file.exists
    /\ ~ args.skip_download =>
           sqlite_file.tables = [t \in Tables |-> CopyTable(t, r2[t])]
    /\ DOMAIN sqlite_file.tables = Tables
    /\ dump_files = create_sql_dumps(sqlite_file.tables, sku_chunk_size, FALSE)
    /\ failed_at = 0
    /\ IF args.skip_import
       THEN invoked = <<>> /\ Len(plan) = Len(dump_files)
       ELSE file_index = Len(dump_files) /\ Len(invoked) = Len(dump_files)

\* C21: the run ends with exit status 0 ("Sync complete!") exactly when the
\* prerequisites, the download unless skipped, the file generation and the
\* import of every file unless skipped have all succeeded; a run that ended
\* on a failure has exit status 1 and never gets to "Sync complete!".
C21_ExitStatus ==
    /\ [](/\ exit_status \in {-1, 0, 1}
          /\ exit_status = 0 <=> pc = "done"
          /\ exit_status = 1 <=> pc = "exit"
          /\ pc = "done" => AllPhasesSucceeded
          /\ (failed_at > 0 \/ PrerequisiteMissing \/ StoreMissing)
                => pc # "done")
    /\ [][(pc = "exit" /\ run' = run) => (pc' = "exit" /\ exit_status' = 1)]_vars

C21_Witness ==
    /\ pc = "done" /\ exit_status = 0
    /\ run = 2
    /\ ~ args.skip_download /\ ~ args.skip_import
    /\ Len(invoked) = 7

\* the staging tables and their _dedup helpers
StagingTables == {Staging(t) : t \in Tables} \cup {StagingDedup(t) : t \in Tables}

\* C22 as stated: in every state between two file invocations, and after a
\* run that halted, the remote database holds no staging table.
C22_Original == \A x \in DOMAIN d1.tables : x \notin StagingTables

\* C22 (amended): between two file invocations and after a halted run the
\* remote database holds no staging table but staging_skus: staging_groups,
\* staging_products and the _dedup helpers exist only inside the
\* transaction of their file.  staging_skus is there from the setup file to
\* the commit of the merge file, also after a run that halted on a file in
\* between, and then until the next setup file; after a completed import
\* it is gone.
C22_StagingWindow ==
    /\ \A x \in DOMAIN d1.tables : x \in StagingTables => x = "staging_skus"
    /\ (HasTable(d1, "staging_skus") /\ ~ HasTable(d1_start, "staging_skus")) =>
           /\ PositionOf("dump_skus_setup.sql") \in 1..Len(invoked)
           /\ ~ (PositionOf("dump_skus_merge.sql") \in 1..file_index)
    /\ (/\ pc \in {"import", "exit"}
        /\ PositionOf("dump_skus_setup.sql") \in 1..file_index
        /\ file_index < PositionOf("dump_skus_merge.sql")
        /\ failed_at # PositionOf("dump_skus_merge.sql")) =>
           HasTable(d1, "staging_skus")
    /\ (pc = "done" /\ ~ args.skip_import) => DOMAIN d1.tables = Tables

C22_Witness ==
    /\ pc = "exit" /\ failed_at > 0
    /\ dump_files[failed_at].name = "dump_skus_1.sql"
    /\ HasTable(d1, "staging_skus") /\ Len(d1.tables["staging_skus"]) = 1
    /\ ~ HasTable(d1_start, "staging_skus")

\* C23: a run that starts against a target still holding staging_skus with
\* rows of a crashed run drops that table in the setup file before
\* creating it, so after the setup file staging_skus is empty, no leftover
\* row that is not in the new snapshot is ever in skus, and after the merge
\* file staging_skus is gone.
LeftoverRows == IF HasTable(d1_start, "staging_skus")
                THEN RowSet(d1_start.tables["staging_skus"]) ELSE {}

C23_LeftoverDiscarded ==
    (LeftoverRows # {} /\ dump_files # <<>> /\ failed_at = 0) =>
        /\ file_index = PositionOf("dump_skus_setup.sql") =>
               HasTable(d1, "staging_skus") /\ d1.tables["staging_skus"] = <<>>
        /\ file_index >= PositionOf("dump_skus_setup.sql") =>
               \A x \in LeftoverRows \ RowSet(sqlite_file.tables["skus"]) :
                   /\ HasTable(d1, "skus") => x \notin RowSet(d1.tables["skus"])
                   /\ HasTable(d1, "staging_skus") =>
                          x \notin RowSet(d1.tables["staging_skus"])
        /\ file_index = Len(dump_files) =>
               /\ ~ HasTable(d1, "staging_skus")
               /\ RowSet(d1.tables["skus"]) \subseteq RowSet(sqlite_file.tables["skus"])

C23_Witness ==
    /\ pc = "done" /\ ~ args.skip_import /\ file_index = Len(dump_files)
    /\ LeftoverRows \ RowSet(sqlite_file.tables["skus"]) # {}
    /\ d1.tables["skus"] # <<>>
    /\ ~ HasTable(d1, "staging_skus")

\* the positions of file f that hold a statement with operation op
OpPositions(f, op) == {n \in 1..Len(f.stmts) : f.stmts[n].op = op}

\* the steps of a merge, the drop of the staging table included
MergeSteps(f) ==
    {n \in 1..Len(f.stmts) :
        \/ f.stmts[n].op \in {"dedupe", "update", "insert", "warn", "delete"}
        \/ f.stmts[n].op = "DROP TABLE IF EXISTS" /\ f.stmts[n].name \in StagingTables
           /\ \E m \in 1..(n - 1) : f.stmts[m].op = "dedupe"}

\* C24: every file that holds a merge (groups, products, skus) switches
\* foreign-key enforcement off before its BEGIN, holds one BEGIN and one
\* COMMIT with every step of the merge (dedup, update, insert, guarded
\* delete, drop staging) between them, and a merge that fails midway leaves
\* the remote database as it was before that file.
C24_TransactionAndFkOff ==
    \A k \in 1..Len(dump_files) :
        LET f == dump_files[k]
        IN  OpPositions(f, "dedupe") # {} =>
              /\ Cardinality(OpPositions(f, "BEGIN")) = 1
              /\ Cardinality(OpPositions(f, "COMMIT")) = 1
              /\ \A n \in MergeSteps(f) :
                     /\ \A b \in OpPositions(f, "BEGIN") : b < n
                     /\ \A c \in OpPositions(f, "COMMIT") : n < c
              /\ \E n \in MergeSteps(f) : f.stmts[n].op = "DROP TABLE IF EXISTS"
              /\ \E p \in OpPositions(f, "PRAGMA foreign_keys=OFF") :
                     \A b \in OpPositions(f, "BEGIN") : p < b
              /\ \A n \in 1..(Len(f.stmts) - 1) :
                     ExecInterrupted(BeforeFile(k), f, n) = BeforeFile(k)

\* the lines of dump_schema.sql that are not a DROP the rewrite put in
CarriedOver == SelectSeq(schema_lines, LAMBDA l : l.kind \notin {"DROP TABLE IF EXISTS",
                                                                  "DROP INDEX IF EXISTS"})

\* the DROP that belongs before a CREATE line
DropFor(l) == Line(IF l.kind = "CREATE TABLE" THEN "DROP TABLE IF EXISTS"
                   ELSE "DROP INDEX IF EXISTS", l.name, FALSE, FALSE, "", ";")

\* C25: in dump_schema.sql every CREATE TABLE, CREATE INDEX and CREATE
\* UNIQUE INDEX line of the schema, name quoted or not, stands right after
\* a DROP TABLE IF EXISTS / DROP INDEX IF EXISTS of the same name; no line
\* holds " IF NOT EXISTS"; apart from the DROP lines and that qualifier the
\* lines are those of the schema, unchanged and in order; and once the
\* remote database has executed the file, whatever it held before, the
\* execution succeeded and every table the file dropped exists again,
\* empty, and every index of the schema is on its table.
C25_SchemaRewrite ==
    /\ \A n \in 1..Len(schema_lines) :
           /\ ~ schema_lines[n].if_not_exists
           /\ schema_lines[n].kind \in CreateKinds =>
                  n > 1 /\ schema_lines[n - 1] = DropFor(schema_lines[n])
    /\ Len(CarriedOver) = lines_read
    /\ \A n \in 1..lines_read :
           /\ schema_stdout[n].kind \notin CreateKinds => CarriedOver[n] = schema_stdout[n]
           /\ \A fld \in {"kind", "name", "quoted", "on", "rest"} :
                  CarriedOver[n][fld] = schema_stdout[n][fld]
    /\ file_index = 1 =>
           /\ failed_at = 0
           /\ \A n \in 1..Len(schema_lines) :
                  /\ schema_lines[n].kind = "DROP TABLE IF EXISTS" =>
                         /\ HasTable(d1, schema_lines[n].name)
                         /\ d1.tables[schema_lines[n].name] = <<>>
                  /\ schema_lines[n].kind \in {"CREATE INDEX", "CREATE UNIQUE INDEX"} =>
                         /\ schema_lines[n].name \in DOMAIN d1.indexes
                         /\ d1.indexes[schema_lines[n].name] = schema_lines[n].on

C25_Witness ==
    /\ file_index = 1 /\ failed_at = 0
    /\ Len(schema_stdout) = 2
    /\ schema_stdout[1].kind = "CREATE TABLE" /\ schema_stdout[1].quoted
    /\ schema_stdout[1].if_not_exists
    /\ schema_stdout[2].kind = "CREATE UNIQUE INDEX" /\ schema_stdout[2].if_not_exists
    /\ HasTable(d1_start, "groups") /\ d1_start.tables["groups"] # <<>>
    /\ HasTable(d1, "groups") /\ Len(schema_lines) = 4

\* C26: the update step sets every non-key column of a target row to the
\* staged value whenever a staged row has the key of the target row and
\* differs from it in a non-key column, a column that is NULL on one side
\* only included.
C26_NullSafeUpdate ==
    [][mpc = "update" =>
          \A i \in 1..Len(target) : \A j \in 1..Len(staging) :
              (EqTrue(staging[j][mkey], target[i][mkey])
                 /\ DiffersNonKey(target[i], staging[j]))
                  => /\ i \in written'
                     /\ \A c \in DOMAIN target[i] :
                            target'[i][c] = IF c = mkey THEN target[i][c] ELSE staging[j][c]]_vars

C26_Witness ==
    /\ mpc = "insert"
    /\ \E i, k \in written : \E c \in DOMAIN target[i] :
           /\ target0[i][c] = NULL /\ target[i][c] # NULL
           /\ target0[k][c] # NULL /\ target[k][c] = NULL

\* C27 as stated: a merge script run with empty staging yields exactly one
\* warning row, a merge run with non-empty staging yields none.
C27_Original ==
    mpc = "done" =>
        /\ staging0 = <<>> => Len(warnings) = 1
        /\ staging0 # <<>> => warnings = <<>>

\* the SKU merge after the setup file and zero chunk files, against a
\* database whose skus table holds rows
ZeroChunkMerge(rows) ==
    ExecFile(ExecFile(PutTable(EmptyDb, "skus", rows), skus_setup_file).db, skus_merge_file)

\* C27 (amended): a merge script run with staging that holds no row with a
\* non-NULL key (empty staging, the SKU merge after zero chunk files, or
\* staged rows that all have a NULL key) completes and commits without an
\* error, yields exactly one warning row and leaves the target as it was;
\* a merge run with a staged row that has a non-NULL key yields no warning
\* row.
C27_EmptyStagingWarning ==
    /\ mpc = "done" =>
           IF ColumnValues(staging0, mkey) \subseteq {NULL}
           THEN Len(warnings) = 1 /\ target = target0
           ELSE warnings = <<>>
    /\ (table_name = "skus" /\ mpc = "done") =>
           LET end == ZeroChunkMerge(target0)
           IN  /\ end.ok
               /\ Len(end.out) = 1
               /\ end.db = PutTable(EmptyDb, "skus", target0)

C27_Witness ==
    /\ mpc = "done"
    /\ staging0 # <<>>
    /\ Len(warnings) = 1
    /\ target # <<>>

\* the table a merge file is for
TableOfFile(name) ==
    CASE name = "dump_groups.sql" -> "groups"
      [] name = "dump_products.sql" -> "products"
      [] OTHER -> "skus"

\* the tables whose file stands before the files of table t
MergedBefore(t) ==
    CASE t = "groups" -> {} [] t = "products" -> {"groups"} [] t = "skus" -> {"groups", "products"}

\* C28: the execution of a merge file of one table, whole or broken off,
\* changes only that table and its staging tables: every other table of
\* the remote database exists before and after with the same rows; and
\* after a failure in a file of a later table the earlier tables hold the
\* rows their merges committed, those of the snapshot.
C28_TableIndependence ==
    /\ [][(pc = "import" /\ file_index < Len(dump_files)
             /\ dump_files[file_index + 1].name # "dump_schema.sql") =>
            LET own == TableOfFile(dump_files[file_index + 1].name)
            IN  \A x \in (DOMAIN d1.tables) \cup (DOMAIN d1'.tables) :
                    x \notin {own, "staging_" \o own, "staging_" \o own \o "_dedup"} =>
                        /\ x \in DOMAIN d1.tables /\ x \in DOMAIN d1'.tables
                        /\ d1'.tables[x] = d1.tables[x]]_vars
    /\ []((failed_at > 0 /\ dump_files[failed_at].name # "dump_schema.sql") =>
              \A t \in MergedBefore(TableOfFile(dump_files[failed_at].name)) :
                  /\ HasTable(d1, t)
                  /\ d1.tables[t] = sqlite_file.tables[t])

C28_Witness ==
    /\ pc = "exit" /\ failed_at > 0
    /\ dump_files[failed_at].name = "dump_skus_merge.sql"
    /\ HasTable(d1_start, "groups")
    /\ d1.tables["groups"] # d1_start.tables["groups"]
    /\ d1.tables["groups"] = sqlite_file.tables["groups"]
    /\ d1.tables["products"] = sqlite_file.tables["products"]
    /\ d1.tables["products"] # <<>>

\* the rows of a snapshot table that are the first of their key
FirstOfKey(rows, key_column) ==
    {rows[i] : i \in {n \in 1..Len(rows) :
                        /\ rows[n][key_column] # NULL
                        /\ \A m \in 1..(n - 1) : rows[m][key_column] # rows[n][key_column]}}

\* table t of database db holds the snapshot of run r
HoldsSnapshot(db, t, r) ==
    /\ HasTable(db, t)
    /\ RowSet(db.tables[t]) = FirstOfKey(runs[r].store[t], table_keys[t])
    /\ Len(db.tables[t]) = Cardinality(FirstOfKey(runs[r].store[t], table_keys[t]))

EqualsSnapshot(t, r) == HoldsSnapshot(d1, t, r)

BothSucceeded == runs[1].pc = "done" /\ runs[2].pc = "done"

\* from database db, with i files of the first run and j files of the
\* second executed, some order of the remaining invocations lets every
\* file succeed and ends with a table that holds neither snapshot
RECURSIVE MixedSuccess(_, _, _)
MixedSuccess(db, i, j) ==
    IF i = Len(runs[1].dump_files) /\ j = Len(runs[2].dump_files)
    THEN \E t \in Tables : ~ HoldsSnapshot(db, t, 1) /\ ~ HoldsSnapshot(db, t, 2)
    ELSE \/ /\ i < Len(runs[1].dump_files)
            /\ LET res == ExecFile(db, runs[1].dump_files[i + 1])
               IN  res.ok /\ MixedSuccess(res.db, i + 1, j)
         \/ /\ j < Len(runs[2].dump_files)
            /\ LET res == ExecFile(db, runs[2].dump_files[j + 1])
               IN  res.ok /\ MixedSuccess(res.db, i, j + 1)

\* C29 as stated: for two runs with different snapshots there is an
\* interleaving of their file invocations after which both runs report
\* success yet some target table equals neither run's snapshot.
C29_Original ==
    (runs[1].file_index = 0 /\ runs[2].file_index = 0 /\ runs[1].store # runs[2].store)
        => MixedSuccess(d1, 0, 0)

\* C29 (amended): the file invocations of two runs interleave freely, and
\* there is an interleaving after which one run reports success, the other
\* fails on its merge file, and skus holds rows of both snapshots and
\* equals neither (the witness); but whenever both runs report success,
\* every table of the target equals the snapshot of one of the runs, and
\* a table that equals neither at the end means that a run failed.
C29_NoLocking ==
    /\ BothSucceeded => \A t \in Tables : EqualsSnapshot(t, 1) \/ EqualsSnapshot(t, 2)
    /\ (/\ runs[1].pc \in {"done", "exit"} /\ runs[2].pc \in {"done", "exit"}
        /\ \E t \in Tables : ~ EqualsSnapshot(t, 1) /\ ~ EqualsSnapshot(t, 2))
           => runs[1].pc = "exit" \/ runs[2].pc = "exit"

C29_Witness ==
    /\ runs[1].pc = "done" /\ runs[2].pc = "exit"
    /\ runs[2].dump_files[runs[2].file_index + 1].name = "dump_skus_merge.sql"
    /\ HasTable(d1, "skus")
    /\ ~ EqualsSnapshot("skus", 1) /\ ~ EqualsSnapshot("skus", 2)
    /\ RowSet(d1.tables["skus"]) \cap RowSet(runs[1].store["skus"]) # {}
    /\ RowSet(d1.tables["skus"]) \cap RowSet(runs[2].store["skus"]) # {}

\* the rows of a table whose key is NULL
NullKeyRows(rows) == SelectSeq(rows, LAMBDA r : r[mkey] = NULL)

\* C30: the dedup step drops every staged row whose key is NULL, so from
\* then on no staged row has a NULL key, no step of the merge adds a row
\* with a NULL key to the target, and a merge whose staged rows all have a
\* NULL key ends with the target as it was (nothing inserted, nothing
\* deleted).
C30_NullKeysNeverMerged ==
    /\ mpc # "dedupe" => /\ NULL \notin ColumnValues(staging, mkey)
                         /\ RowSet(staging) \subseteq RowSet(staging0)
    /\ NullKeyRows(target) = NullKeyRows(target0)
    /\ (mpc = "done" /\ ColumnValues(staging0, mkey) \subseteq {NULL}) => target = target0

C30_Witness ==
    /\ mpc = "done"
    /\ target0 = <<>>
    /\ NULL \in ColumnValues(staging0, mkey)
    /\ target # <<>>
    /\ NULL \notin ColumnValues(target, mkey)

====
